---- MODULE Spec2Model ----
(***************************************************************************)
(* Conversation naming utilities of the Enza chat application              *)
(* (generateConversationName, applyNamingRules, smartTruncate,             *)
(* generateFallbackName).  A JavaScript string is a sequence of one-       *)
(* character strings; every operator below computes what the matching      *)
(* String / RegExp method computes on such a sequence.                      *)
(***************************************************************************)
EXTENDS Integers, Sequences, FiniteSets, TLC

VARIABLES
  fn,         \* the function under call
  pc,         \* "call" before the body has run, "return" after, "again"
              \* after the function has been applied to its own result
  arg,        \* the string argument (firstMessage, text)
  maxLength,  \* smartTruncate's second argument
  now,        \* the instant read by new Date(), NoDate while unread
  cleaned,    \* generateConversationName: const cleaned
  processed,  \* applyNamingRules: the successive values of let processed
  ret,        \* the returned string
  once,       \* the result of the first call while the function is applied
              \* again to its own result
  request,           \* per invocation of the Lambda handler: the API Gateway event
  rpc,               \* per invocation: where the handler stands
  existingUser,      \* per invocation: ensureUserExists' const existingUser
  validation,        \* per invocation: handleConversationUpdate's const validation
  response,          \* per invocation: the APIGatewayProxyResult returned
  log,               \* per invocation: validateConversationName calls,
                     \* updateConversation calls and table writes, in order
  userTable,         \* the User table, by userId
  conversationTable, \* the Conversation table, by conversationId
  messageTable,      \* the Message table: the set of its items
  deleteRequests,    \* per call of deleteConversation: the messageIds of
                     \* const deleteRequests
  messages,             \* ChatPage: the state messages, each message with
                        \* the conversation it was sent to or loaded from
  activeConversationId, \* ChatPage: the state activeConversationId
  isLoading,            \* ChatPage: the state isLoading
  isLoadingMessages,    \* ChatPage: the state isLoadingMessages
  pending,              \* ChatPage: the handler calls standing at an await,
                        \* each with the values its closure captured
  started               \* ChatPage: the number of handler calls that awaited

vars == <<fn, pc, arg, maxLength, now, cleaned, processed, ret, once>>

apiVars ==
  <<request, rpc, existingUser, validation, response, log, userTable,
    conversationTable, messageTable, deleteRequests>>

uiVars ==
  <<messages, activeConversationId, isLoading, isLoadingMessages, pending,
    started>>

allVars == <<vars, apiVars, uiVars>>

----------------------------------------------------------------------------
(* Bounds of the checked input space.                                      *)

\* longest message enumerated exhaustively over ShortAlphabet
MaxShort == 5
\* longest filler word placed after an opener
MaxWord == 6
\* how far past the 50-character limit the long messages reach
MaxOver == 2
\* largest small maxLength smartTruncate is called with on its own
MaxTruncLen == 7
\* longest name enumerated exhaustively over NameAlphabet
MaxShortName == 4

----------------------------------------------------------------------------
(* Characters.                                                             *)

SPACE == " "
TAB == "\t"
NEWLINE == "\n"

\* the characters \s and String.prototype.trim treat as white space
WhiteSpace == {SPACE, TAB, NEWLINE}

LowerCaseLetters ==
  <<"a", "b", "c", "d", "e", "f", "g", "h", "i", "j", "k", "l", "m",
    "n", "o", "p", "q", "r", "s", "t", "u", "v", "w", "x", "y", "z">>

UpperCaseLetters ==
  <<"A", "B", "C", "D", "E", "F", "G", "H", "I", "J", "K", "L", "M",
    "N", "O", "P", "Q", "R", "S", "T", "U", "V", "W", "X", "Y", "Z">>

\* String.prototype.toUpperCase on one character
toUpperCase(c) ==
  IF \E i \in 1..26 : LowerCaseLetters[i] = c
  THEN UpperCaseLetters[CHOOSE i \in 1..26 : LowerCaseLetters[i] = c]
  ELSE c

\* the /i flag: two characters match when their canonical forms agree
EqualIgnoreCase(a, b) == toUpperCase(a) = toUpperCase(b)

\* U+0001, a control character that is not white space (written as a token)
SOH == "SOH"

\* U+0060, the grave accent (written as a token)
GRAVE == "GRAVE"

\* the printable ASCII characters in code order, U+0020 to U+007E
Printable ==
  <<SPACE, "!", "\"", "#", "$", "%", "&", "'", "(", ")", "*", "+",
    ",", "-", ".", "/", "0", "1", "2", "3", "4", "5", "6", "7",
    "8", "9", ":", ";", "<", "=", ">", "?", "@", "A", "B", "C",
    "D", "E", "F", "G", "H", "I", "J", "K", "L", "M", "N", "O",
    "P", "Q", "R", "S", "T", "U", "V", "W", "X", "Y", "Z", "[",
    "\\", "]", "^", "_", GRAVE, "a", "b", "c", "d", "e", "f", "g",
    "h", "i", "j", "k", "l", "m", "n", "o", "p", "q", "r", "s",
    "t", "u", "v", "w", "x", "y", "z", "{", "|", "}", "~">>

\* the code point of a character
charCode(c) ==
  IF c = SOH THEN 1
  ELSE IF c = TAB THEN 9
  ELSE IF c = NEWLINE THEN 10
  ELSE 31 + (CHOOSE i \in 1..Len(Printable) : Printable[i] = c)

----------------------------------------------------------------------------
(* String methods.                                                         *)

Min(a, b) == IF a < b THEN a ELSE b
Max(a, b) == IF a > b THEN a ELSE b

\* String.prototype.substring(start, end): both indices are clamped to
\* [0, length] and swapped when start > end
substring(s, start, end) ==
  LET a == Max(0, Min(start, Len(s)))
      b == Max(0, Min(end, Len(s)))
  IN  SubSeq(s, Min(a, b) + 1, Max(a, b))

\* the number of consecutive white-space characters of s from index i on
\* (1-based): what a greedy \s* consumes there
RECURSIVE WhiteSpaceRun(_, _)
WhiteSpaceRun(s, i) ==
  IF i <= Len(s) /\ s[i] \in WhiteSpace THEN 1 + WhiteSpaceRun(s, i + 1) ELSE 0

\* the number of consecutive characters c that end s: what c+$ matches
RECURSIVE TrailingRun(_, _)
TrailingRun(s, c) ==
  IF Len(s) > 0 /\ s[Len(s)] = c
  THEN 1 + TrailingRun(SubSeq(s, 1, Len(s) - 1), c)
  ELSE 0

\* the number of white-space characters that end s
RECURSIVE TrailingWhiteSpace(_)
TrailingWhiteSpace(s) ==
  IF Len(s) > 0 /\ s[Len(s)] \in WhiteSpace
  THEN 1 + TrailingWhiteSpace(SubSeq(s, 1, Len(s) - 1))
  ELSE 0

\* String.prototype.trim
trim(s) ==
  LET lead == WhiteSpaceRun(s, 1)
      rest == SubSeq(s, lead + 1, Len(s))
  IN  SubSeq(rest, 1, Len(rest) - TrailingWhiteSpace(rest))

\* String.prototype.lastIndexOf(c): 0-based, -1 when c does not occur
RECURSIVE lastIndexOf(_, _)
lastIndexOf(s, c) ==
  IF Len(s) = 0 THEN -1
  ELSE IF s[Len(s)] = c THEN Len(s) - 1
  ELSE lastIndexOf(SubSeq(s, 1, Len(s) - 1), c)

\* whether the literal alternative alt matches s at position 0 under /i
MatchesLiteral(s, alt) ==
  /\ Len(alt) <= Len(s)
  /\ \A i \in 1..Len(alt) : EqualIgnoreCase(s[i], alt[i])

\* the length of the match of /^(alts[1]|alts[2]|...)\s{minSpace,}/i on s,
\* or -1 when it does not match: the alternatives are tried in order, the
\* white-space run is greedy, and a failed run backtracks to the next
\* alternative
MatchAtStart(s, alts, minSpace) ==
  LET fits(k) == /\ MatchesLiteral(s, alts[k])
                 /\ WhiteSpaceRun(s, Len(alts[k]) + 1) >= minSpace
  IN  IF \E k \in 1..Len(alts) : fits(k)
      THEN LET k == CHOOSE j \in 1..Len(alts) :
                      fits(j) /\ \A h \in 1..(j - 1) : ~fits(h)
           IN  Len(alts[k]) + WhiteSpaceRun(s, Len(alts[k]) + 1)
      ELSE -1

----------------------------------------------------------------------------
(* src/unnamed/part_000: the naming utilities.                             *)

ConversationalStarters ==
  << <<"h", "i">>,
     <<"h", "e", "l", "l", "o">>,
     <<"h", "e", "y">>,
     <<"p", "l", "e", "a", "s", "e">>,
     <<"c", "a", "n", " ", "y", "o", "u">>,
     <<"c", "o", "u", "l", "d", " ", "y", "o", "u">>,
     <<"w", "o", "u", "l", "d", " ", "y", "o", "u">>,
     <<"i", " ", "n", "e", "e", "d">>,
     <<"i", " ", "w", "a", "n", "t">>,
     <<"h", "e", "l", "p", " ", "m", "e">> >>

QuestionStarters ==
  << <<"t", "e", "l", "l", " ", "m", "e">>,
     <<"e", "x", "p", "l", "a", "i", "n">>,
     <<"s", "h", "o", "w", " ", "m", "e">>,
     <<"w", "h", "a", "t", " ", "i", "s">>,
     <<"w", "h", "a", "t", " ", "a", "r", "e">>,
     <<"h", "o", "w", " ", "d", "o">>,
     <<"h", "o", "w", " ", "t", "o">>,
     <<"w", "h", "e", "r", "e", " ", "i", "s">>,
     <<"w", "h", "e", "n", " ", "i", "s">>,
     <<"w", "h", "y">> >>

ChatStartedOn == <<"C", "h", "a", "t", " ", "s", "t", "a", "r", "t", "e", "d", " ", "o", "n", " ">>
TheQuickBrownFox == <<"T", "h", "e", " ", "q", "u", "i", "c", "k", " ", "b", "r", "o", "w", "n", " ", "f", "o", "x">>
HiBob == <<"h", "i", " ", "b", "o", "b">>
ExplainX == <<"E", "x", "p", "l", "a", "i", "n", " ", "X">>
HiCanYouExplain ==
  <<"h", "i", ",", SPACE, "c", "a", "n", SPACE, "y", "o", "u", SPACE,
    "e", "x", "p", "l", "a", "i", "n", SPACE, "h", "o", "w", SPACE, "t",
    "r", "a", "n", "s", "f", "o", "r", "m", "e", "r", "s", SPACE, "w",
    "o", "r", "k", SPACE, "i", "n", SPACE, "m", "a", "c", "h", "i", "n",
    "e", SPACE, "l", "e", "a", "r", "n", "i", "n", "g", SPACE, "m", "o",
    "d", "e", "l", "s", SPACE, "t", "o", "d", "a", "y">>
Hello == <<"H", "e", "l", "l", "o">>
HiHelloWorld ==
  <<"h", "i", SPACE, "h", "e", "l", "l", "o", SPACE, "w", "o", "r", "l", "d">>

MyChat2024 == <<"M", "y", SPACE, "C", "h", "a", "t", SPACE, "2", "0", "2", "4">>
MyChatInBrackets == <<"m", "y", "<", "c", "h", "a", "t", ">">>
MultipleSpaces ==
  <<SPACE, SPACE, "m", "u", "l", "t", "i", "p", "l", "e", SPACE, SPACE, SPACE, "s", "p", "a", "c", "e", "s", SPACE, SPACE>>

Ellipsis == <<".", ".", ".">>

\* line 9: cleaned.length < 5
MinMessageLength == 5
\* line 17: smartTruncate(name, 50)
MaxNameLength == 50

\* mutant: no opener is removed
removeConversationalStarter_Never(message) == message

\* mutant: the opener pattern with \s* in place of \s+
removeConversationalStarter_OptionalSpace(message) ==
  LET m == MatchAtStart(message, ConversationalStarters, 0)
  IN  IF m < 0 THEN message ELSE SubSeq(message, m + 1, Len(message))

\* line 28: .replace(/^(hi|hello|...|help me)\s+/i, '')
removeConversationalStarter(message) ==
  LET m == MatchAtStart(message, ConversationalStarters, 1)
  IN  IF m < 0 THEN message ELSE SubSeq(message, m + 1, Len(message))

\* mutant: the question pattern replaced by '' in place of '$&'
keepQuestionStarter_Removed(message) ==
  LET m == MatchAtStart(message, QuestionStarters, 0)
  IN  IF m < 0 THEN message ELSE SubSeq(message, m + 1, Len(message))

\* line 29: .replace(/^(tell me|explain|...|why)\s*/i, '$&'): the match is
\* replaced by $&, the matched text itself
keepQuestionStarter(message) ==
  LET m == MatchAtStart(message, QuestionStarters, 0)
  IN  IF m < 0 THEN message
      ELSE SubSeq(message, 1, m) \o SubSeq(message, m + 1, Len(message))

\* lines 27-30
stripStarters(message) ==
  trim(keepQuestionStarter(removeConversationalStarter(message)))

\* mutant: the stripped text is kept however short it is
useOriginalIfShort_Never(message, stripped) == stripped

\* lines 33-35: if (processed.length < 5) processed = message
useOriginalIfShort(message, stripped) ==
  IF Len(stripped) < MinMessageLength THEN message ELSE stripped

\* line 38: processed.charAt(0).toUpperCase() + processed.slice(1)
capitalizeFirst(s) ==
  IF Len(s) = 0 THEN s ELSE <<toUpperCase(s[1])>> \o SubSeq(s, 2, Len(s))

\* a replace(/c+$/, ''): the run of c that ends s is removed
removeTrailing(s, c) == SubSeq(s, 1, Len(s) - TrailingRun(s, c))

\* mutant: the three replacements in the opposite order
cleanUpPunctuation_Reordered(s) ==
  trim(removeTrailing(removeTrailing(removeTrailing(s, "!"), "."), "?"))

\* lines 41-45
cleanUpPunctuation(s) ==
  trim(removeTrailing(removeTrailing(removeTrailing(s, "?"), "."), "!"))

\* lines 25-48: the successive values of processed; the last is returned
applyNamingRules(message) ==
  LET stripped == stripStarters(message)
      kept == useOriginalIfShort(message, stripped)
      capital == capitalizeFirst(kept)
  IN  <<stripped, kept, capital, cleanUpPunctuation(capital)>>

\* mutant: >= in place of >
farEnough_Inclusive(lastSpace, max) == 5 * lastSpace >= 3 * max

\* line 63: lastSpace > maxLength * 0.6.  In IEEE doubles the product
\* compares with an integer lastSpace as 3 * maxLength / 5 does, for every
\* maxLength below 2000.
farEnough(lastSpace, max) == 5 * lastSpace > 3 * max

\* mutant: the cut leaves no room for the ellipsis
hardTruncate_NoRoom(truncated, max) == substring(truncated, 0, max) \o Ellipsis

\* line 68: truncated.substring(0, maxLength - 3) + '...'
hardTruncate(truncated, max) ==
  substring(truncated, 0, max - Len(Ellipsis)) \o Ellipsis

\* mutant: < in place of <= in the length test
smartTruncate_Strict(text, max) ==
  IF Len(text) < max THEN text
  ELSE LET truncated == substring(text, 0, max)
           lastSpace == lastIndexOf(truncated, SPACE)
       IN  IF farEnough(lastSpace, max)
           THEN substring(truncated, 0, lastSpace) \o Ellipsis
           ELSE hardTruncate(truncated, max)

\* lines 53-69
smartTruncate(text, max) ==
  IF Len(text) <= max THEN text
  ELSE LET truncated == substring(text, 0, max)
           lastSpace == lastIndexOf(truncated, SPACE)
       IN  IF farEnough(lastSpace, max)
           THEN substring(truncated, 0, lastSpace) \o Ellipsis
           ELSE hardTruncate(truncated, max)

\* mutant: a minimum of 4 in place of 5
tooShort_Below4(s) == Len(s) < MinMessageLength - 1

\* line 9
tooShort(s) == Len(s) < MinMessageLength

(* generateFallbackName, lines 74-85.  The instant is the local month, day, *)
(* hour and minute; en-US with month: 'short', day: 'numeric',              *)
(* hour: 'numeric', minute: '2-digit', hour12: true prints "Jan 20, 2:30 PM".*)
MonthNames ==
  << <<"J", "a", "n">>, <<"F", "e", "b">>, <<"M", "a", "r">>,
     <<"A", "p", "r">>, <<"M", "a", "y">>, <<"J", "u", "n">>,
     <<"J", "u", "l">>, <<"A", "u", "g">>, <<"S", "e", "p">>,
     <<"O", "c", "t">>, <<"N", "o", "v">>, <<"D", "e", "c">> >>

Digits == <<"0", "1", "2", "3", "4", "5", "6", "7", "8", "9">>

\* minute: '2-digit'
twoDigit(n) == <<Digits[(n \div 10) + 1], Digits[(n % 10) + 1]>>

\* day: 'numeric', hour: 'numeric'
numeric(n) == IF n < 10 THEN <<Digits[n + 1]>> ELSE twoDigit(n)

\* hour12: true
hour12(h) == IF h % 12 = 0 THEN 12 ELSE h % 12
dayPeriod(h) == IF h < 12 THEN <<"A", "M">> ELSE <<"P", "M">>

toLocaleDateString(d) ==
  MonthNames[d.month] \o <<SPACE>> \o numeric(d.day) \o <<",", SPACE>>
    \o numeric(hour12(d.hour)) \o <<":">> \o twoDigit(d.minute)
    \o <<SPACE>> \o dayPeriod(d.hour)

generateFallbackName(d) == ChatStartedOn \o toLocaleDateString(d)

\* lines 97 and 117: the longest name kept
MaxPersistedLength == 100

\* the messages of validateConversationName
NameEmpty == "Conversation name cannot be empty"
NameTooLong == "Conversation name must be 100 characters or less"
NameInvalidCharacters == "Conversation name contains invalid characters"

\* mutant: the control range \x00-\x1f left out of the class
inInvalidClass_NoControl(c) ==
  c \in {"<", ">", ":", "\"", "/", "\\", "|", "?", "*"}

\* line 102: the class [<>:"/\\|?*\x00-\x1f]
inInvalidClass(c) ==
  \/ c \in {"<", ">", ":", "\"", "/", "\\", "|", "?", "*"}
  \/ charCode(c) \in 0..31

\* line 103: invalidChars.test(trimmed)
hasInvalidChars(s) == \E i \in 1..Len(s) : inInvalidClass(s[i])

\* mutant: >= in place of >
tooLong_Inclusive(s) == Len(s) >= MaxPersistedLength

\* line 97: trimmed.length > 100
tooLong(s) == Len(s) > MaxPersistedLength

\* mutant: the name is tested as given, not trimmed
validateConversationName_NoTrim(name) ==
  IF Len(name) = 0 THEN [isValid |-> FALSE, error |-> NameEmpty]
  ELSE IF tooLong(name) THEN [isValid |-> FALSE, error |-> NameTooLong]
  ELSE IF hasInvalidChars(name)
       THEN [isValid |-> FALSE, error |-> NameInvalidCharacters]
  ELSE [isValid |-> TRUE]

\* mutant: the characters are tested before the length
validateConversationName_CharsFirst(name) ==
  LET trimmed == trim(name) IN
    IF Len(trimmed) = 0 THEN [isValid |-> FALSE, error |-> NameEmpty]
    ELSE IF hasInvalidChars(trimmed)
         THEN [isValid |-> FALSE, error |-> NameInvalidCharacters]
    ELSE IF tooLong(trimmed) THEN [isValid |-> FALSE, error |-> NameTooLong]
    ELSE [isValid |-> TRUE]

\* lines 90-108; a result without an error has no error field
validateConversationName(name) ==
  LET trimmed == trim(name) IN
    IF Len(trimmed) = 0 THEN [isValid |-> FALSE, error |-> NameEmpty]
    ELSE IF tooLong(trimmed) THEN [isValid |-> FALSE, error |-> NameTooLong]
    ELSE IF hasInvalidChars(trimmed)
         THEN [isValid |-> FALSE, error |-> NameInvalidCharacters]
    ELSE [isValid |-> TRUE]

\* the index (1-based) of the first white-space character of s at or after
\* i, or Len(s) + 1 when there is none: where the next match of \s+ starts
nextWhiteSpace(s, i) ==
  IF \E j \in i..Len(s) : s[j] \in WhiteSpace
  THEN CHOOSE j \in i..Len(s) :
         s[j] \in WhiteSpace /\ \A k \in i..(j - 1) : s[k] \notin WhiteSpace
  ELSE Len(s) + 1

\* line 116: .replace(/\s+/g, ' '): from the left, the text up to the next
\* match is copied, the match (a maximal run of white space) becomes one
\* space, and the search goes on behind it
RECURSIVE collapseWhiteSpace(_, _)
collapseWhiteSpace(s, i) ==
  LET j == nextWhiteSpace(s, i) IN
    IF j > Len(s) THEN SubSeq(s, i, Len(s))
    ELSE SubSeq(s, i, j - 1) \o <<SPACE>>
           \o collapseWhiteSpace(s, j + WhiteSpaceRun(s, j))

\* mutant: the cut is made before the runs are collapsed
cleanConversationName_CutFirst(name) ==
  collapseWhiteSpace(substring(trim(name), 0, MaxPersistedLength), 1)

\* lines 113-118
cleanConversationName(name) ==
  substring(collapseWhiteSpace(trim(name), 1), 0, MaxPersistedLength)

----------------------------------------------------------------------------
(* The inputs the functions are called with.                               *)

Range(f) == {f[i] : i \in DOMAIN f}

\* n letters without a space: one word
Word(n) == [i \in 1..n |-> "x"]

ShortAlphabet == {"a", SPACE, "?", ".", "!"}

\* every message of at most MaxShort characters over ShortAlphabet
ShortMessages == UNION {[1..n -> ShortAlphabet] : n \in 0..MaxShort}

\* nothing, or a starter of either list, as listed or capitalized
StarterForms ==
  LET listed == Range(ConversationalStarters) \cup Range(QuestionStarters)
  IN  {<<>>} \cup listed \cup {capitalizeFirst(o) : o \in listed}

Separators == {<<>>, <<SPACE>>, <<TAB, SPACE>>, <<",", SPACE>>}

SecondStarters == {<<>>, <<"h", "i", SPACE>>, <<"w", "h", "y", SPACE>>}

Endings == {<<>>, <<"?">>, <<"!", "?">>}

\* starter, separator, an optional second starter, one word, an ending
StarterMessages ==
  {o \o s \o q \o Word(n) \o e :
     o \in StarterForms, s \in Separators, q \in SecondStarters,
     n \in 0..MaxWord, e \in Endings}

LongPrefixes ==
  {<<>>, <<"p", "l", "e", "a", "s", "e", SPACE>>,
   <<"h", "o", "w", SPACE, "t", "o", SPACE>>}

\* two words around the 50-character limit
LongMessages ==
  {p \o Word(n1) \o <<SPACE>> \o Word(n2) \o e :
     p \in LongPrefixes, n1 \in (MaxNameLength - 25)..(MaxNameLength + MaxOver),
     n2 \in 0..MaxOver, e \in {<<>>, <<"?">>}}

LiteralMessages == {HiBob, ExplainX, Hello, HiCanYouExplain, HiHelloWorld}

Messages ==
  ShortMessages \cup StarterMessages \cup LongMessages \cup LiteralMessages

\* smartTruncate on its own: every text over {a, space} a little longer than
\* a small maxLength, the documented example, and two words around 50
TruncateCalls ==
  LET small == UNION {[1..n -> {"a", SPACE}] : n \in 0..(MaxTruncLen + Len(Ellipsis))}
  IN  (small \X (Len(Ellipsis)..MaxTruncLen))
        \cup {<<TheQuickBrownFox, 10>>}
        \cup {<<Word(n1) \o <<SPACE>> \o Word(n2), MaxNameLength>> :
                n1 \in 0..(MaxNameLength + MaxOver), n2 \in {0, MaxOver, 25}}

NameAlphabet == {"a", SPACE, "<", TAB, SOH}

\* every name of at most MaxShortName characters over NameAlphabet
ShortNames == UNION {[1..n -> NameAlphabet] : n \in 0..MaxShortName}

\* the characters of the class, and some outside it, inside and at the ends
\* of a name
SpecialNames ==
  LET special == {"<", ">", ":", "\"", "/", "\\", "|", "?", "*", SOH, TAB,
                  NEWLINE, "!", ".", "-", "_", "'", "2"}
  IN  {<<"a", c, "b">> : c \in special} \cup {<<c, "a", "b">> : c \in special}
        \cup {<<"a", "b", c>> : c \in special}

NamePadding == {<<>>, <<SPACE>>, <<TAB, NEWLINE>>}

\* names around the 100-character limit, with and without white space
\* around them and a reserved character in them
LongNames ==
  {l \o Word(n) \o c \o r :
     l \in NamePadding, r \in NamePadding, c \in {<<>>, <<"<">>},
     n \in (MaxPersistedLength - MaxOver - 1)..(MaxPersistedLength + MaxOver)}

\* two words with the white space between them around the limit
TwoWordNames ==
  {Word(n) \o s \o Word(k) :
     s \in {<<SPACE>>, <<SPACE, TAB, SPACE>>},
     n \in (MaxPersistedLength - MaxOver - 1)..(MaxPersistedLength + MaxOver),
     k \in 0..MaxOver}

LiteralNames == {MyChat2024, MyChatInBrackets, MultipleSpaces, Word(150)}

Names ==
  ShortNames \cup SpecialNames \cup LongNames \cup TwoWordNames \cup LiteralNames

NoDate == [month |-> 0, day |-> 0, hour |-> 0, minute |-> 0]

\* the instants new Date() may read
Dates == [month : {1, 12}, day : {9, 20}, hour : {0, 12, 14}, minute : {5}]

----------------------------------------------------------------------------
(* src/amplify/functions/api-function/handler.ts and the User and          *)
(* Conversation tables of src/unnamed/part_005 (DatabaseService).          *)

\* the concurrent invocations of the Lambda handler
Invocations == {"r1", "r2"}

UserIds == {"u1", "u2"}
ConversationIds == {"c1"}
\* a conversationId under which no item is stored
MissingConversationId == "c0"

\* createConversation, part_005 line 263: the fresh conversationId of the
\* conversation an invocation creates
newConversationId(r) == "conv_" \o r

\* the keys of the Conversation table
ConversationKeys ==
  ConversationIds \cup {MissingConversationId}
    \cup {newConversationId(r) : r \in Invocations}

\* an absent item and a stored item of the two tables
NoUser == [exists |-> FALSE, conversationCount |-> 0]
NoConversation ==
  [exists |-> FALSE, userId |-> "", name |-> <<>>, messageCount |-> 0]
OldName == <<"O", "l", "d">>

\* a response not yet returned
NoResponse == [statusCode |-> 0, error |-> "", name |-> <<>>]
\* const validation before line 217 has run
NotValidated == [called |-> FALSE]

\* createResponse(statusCode, { error }, event)
errorResponse(status, message) ==
  [statusCode |-> status, error |-> message, name |-> <<>>]

\* the names a rename request submits: '', ' ', 'a', ' a ', 'a<' and 101
\* letters
SubmittedNames ==
  {<<>>, <<SPACE>>, <<"a">>, <<SPACE, "a", SPACE>>, <<"a", "<">>,
   Word(MaxPersistedLength + 1)}

\* event.body: absent, not JSON, JSON without a name, JSON whose name is a
\* number, JSON whose name is a string
Bodies ==
  {[kind |-> k, name |-> <<>>] : k \in {"none", "malformed", "noname", "number"}}
    \cup {[kind |-> "string", name |-> n] : n \in SubmittedNames}

\* a PUT event on a path that includes /conversation/: who is authenticated
\* ("" when the token is missing or invalid), the last path part, the body
RenameRequests ==
  [method : {"PUT"}, userId : UserIds \cup {""},
   conversationId : ConversationIds \cup {"", MissingConversationId}, body : Bodies]

WhyNo == <<"w", "h", "y", "?", SPACE, "n", "o">>

\* the queries a chat request submits: '', 'hi bob' and 'why? no'
Queries == {<<>>, HiBob, WhyNo}

\* a POST /chat event: who is authenticated, and the body's conversationId
\* ("" when it has none) and query
ChatRequests ==
  [method : {"POST"}, userId : UserIds \cup {""},
   conversationId : ConversationIds \cup {"", MissingConversationId},
   body : [kind : {"chat"}, query : Queries]]

\* activeConversationId while the chat is new: null
Null == "null"

\* a message of the chat pane that comes from no conversation: the greeting
\* (page.tsx lines 18-26, 126-133), the fallback of fetchMessages (lines
\* 102-109), the error message of handleSubmit (lines 234-240)
Notice == [type |-> "assistant", conversationId |-> ""]

\* the page while no handler has run (page.tsx lines 18-33)
NoPage ==
  /\ messages = <<Notice>>
  /\ activeConversationId = Null
  /\ isLoading = FALSE
  /\ isLoadingMessages = FALSE
  /\ pending = {}
  /\ started = 0

\* the API variables while no handler runs
NoInvocation ==
  /\ request = [r \in Invocations |->
                  [method |-> "", userId |-> "", conversationId |-> "",
                   body |-> [kind |-> "none", name |-> <<>>]]]
  /\ rpc = [r \in Invocations |-> "done"]
  /\ existingUser = [r \in Invocations |-> NoUser]
  /\ validation = [r \in Invocations |-> NotValidated]
  /\ response = [r \in Invocations |-> NoResponse]
  /\ log = [r \in Invocations |-> <<>>]
  /\ userTable = [u \in UserIds |-> NoUser]
  /\ conversationTable = [c \in ConversationKeys |-> NoConversation]
  /\ messageTable = {}
  /\ deleteRequests = [r \in Invocations |-> {}]

----------------------------------------------------------------------------
(* The state machine: one call of one function.                            *)

Init ==
  /\ pc = "call"
  /\ \/ /\ fn = "generateConversationName"
        /\ arg \in Messages
        /\ maxLength = MaxNameLength
     \/ /\ fn = "smartTruncate"
        /\ \E c \in TruncateCalls : arg = c[1] /\ maxLength = c[2]
     \/ /\ fn \in {"validateConversationName", "cleanConversationName"}
        /\ arg \in Names
        /\ maxLength = MaxPersistedLength
  /\ now = NoDate
  /\ cleaned = <<>>
  /\ processed = <<>>
  /\ ret = <<>>
  /\ once = <<>>
  /\ NoInvocation
  /\ NoPage

\* generateConversationName(firstMessage), lines 4-20
generateConversationName ==
  /\ pc = "call"
  /\ fn = "generateConversationName"
  /\ LET c == trim(arg) IN
       /\ cleaned' = c
       /\ IF tooShort(c)
          THEN /\ \E d \in Dates : now' = d /\ ret' = generateFallbackName(d)
               /\ UNCHANGED processed
          ELSE LET steps == applyNamingRules(c) IN
                 /\ processed' = steps
                 /\ ret' = smartTruncate(steps[4], MaxNameLength)
                 /\ UNCHANGED now
  /\ pc' = "return"
  /\ UNCHANGED <<fn, arg, maxLength, once>>
  /\ UNCHANGED <<apiVars, uiVars>>

\* smartTruncate(text, maxLength) called on its own, lines 53-69
callSmartTruncate ==
  /\ pc = "call"
  /\ fn = "smartTruncate"
  /\ ret' = smartTruncate(arg, maxLength)
  /\ pc' = "return"
  /\ UNCHANGED <<fn, arg, maxLength, now, cleaned, processed, once>>
  /\ UNCHANGED <<apiVars, uiVars>>

\* validateConversationName(name), lines 90-108
callValidateConversationName ==
  /\ pc = "call"
  /\ fn = "validateConversationName"
  /\ ret' = validateConversationName(arg)
  /\ pc' = "return"
  /\ UNCHANGED <<fn, arg, maxLength, now, cleaned, processed, once>>
  /\ UNCHANGED <<apiVars, uiVars>>

\* cleanConversationName(name), lines 113-118
callCleanConversationName ==
  /\ pc = "call"
  /\ fn = "cleanConversationName"
  /\ ret' = cleanConversationName(arg)
  /\ pc' = "return"
  /\ UNCHANGED <<fn, arg, maxLength, now, cleaned, processed, once>>
  /\ UNCHANGED <<apiVars, uiVars>>

\* generateConversationName applied to the title it returned, lines 4-20
regenerateConversationName ==
  /\ pc = "return"
  /\ fn = "generateConversationName"
  /\ once' = ret
  /\ LET c == trim(ret) IN
       /\ cleaned' = c
       /\ IF tooShort(c)
          THEN /\ \E d \in Dates : now' = d /\ ret' = generateFallbackName(d)
               /\ UNCHANGED processed
          ELSE LET steps == applyNamingRules(c) IN
                 /\ processed' = steps
                 /\ ret' = smartTruncate(steps[4], MaxNameLength)
                 /\ UNCHANGED now
  /\ pc' = "again"
  /\ UNCHANGED <<fn, arg, maxLength>>
  /\ UNCHANGED <<apiVars, uiVars>>

\* cleanConversationName applied to the name it returned, lines 113-118
recleanConversationName ==
  /\ pc = "return"
  /\ fn = "cleanConversationName"
  /\ once' = ret
  /\ ret' = cleanConversationName(ret)
  /\ pc' = "again"
  /\ UNCHANGED <<fn, arg, maxLength, now, cleaned, processed>>
  /\ UNCHANGED <<apiVars, uiVars>>

Next ==
  \/ generateConversationName
  \/ callSmartTruncate
  \/ callValidateConversationName
  \/ callCleanConversationName
  \/ regenerateConversationName
  \/ recleanConversationName

Spec == Init /\ [][Next]_allVars

----------------------------------------------------------------------------
(* The state machine of the handler: every await is a step of its own.     *)

\* the naming variables while the handler runs
NoCall ==
  /\ fn = "none"
  /\ pc = "return"
  /\ arg = <<>>
  /\ maxLength = 0
  /\ now = NoDate
  /\ cleaned = <<>>
  /\ processed = <<>>
  /\ ret = <<>>
  /\ once = <<>>

\* u2 is provisioned, u1 may not be yet; c1 belongs to u1
InitApi ==
  /\ NoCall
  /\ NoPage
  /\ request \in [Invocations -> RenameRequests \cup ChatRequests]
  /\ rpc = [r \in Invocations |-> "start"]
  /\ existingUser = [r \in Invocations |-> NoUser]
  /\ validation = [r \in Invocations |-> NotValidated]
  /\ response = [r \in Invocations |-> NoResponse]
  /\ log = [r \in Invocations |-> <<>>]
  /\ \E provisioned \in BOOLEAN :
       userTable = [u \in UserIds |->
                      IF u = "u2" \/ provisioned
                      THEN [exists |-> TRUE, conversationCount |-> 1]
                      ELSE NoUser]
  /\ conversationTable =
       [c \in ConversationKeys |->
          IF c \in ConversationIds
          THEN [exists |-> TRUE, userId |-> "u1", name |-> OldName,
                messageCount |-> 0]
          ELSE NoConversation]
  /\ messageTable = {}
  /\ deleteRequests = [r \in Invocations |-> {}]

\* a call to the database or to the model service throws
Throw(r) == log' = [log EXCEPT ![r] = Append(@, "throw")]

Respond(r, res) ==
  /\ response' = [response EXCEPT ![r] = res]
  /\ rpc' = [rpc EXCEPT ![r] = "done"]

\* handler, lines 106-109 and 143-178: requireAuth throws without a user
Authenticate(r) ==
  /\ rpc[r] = "start"
  /\ IF request[r].userId = ""
     THEN Respond(r, errorResponse(401, "Authentication required"))
     ELSE /\ rpc' = [rpc EXCEPT ![r] = "getUser"]
          /\ UNCHANGED response
  /\ UNCHANGED <<vars, uiVars, deleteRequests, request, existingUser, validation, log, userTable,
                 conversationTable, messageTable>>

\* ensureUserExists, lines 66-68 and 81-84: await db.getUser; a failed read
\* is caught and the request goes on
GetUser(r) ==
  /\ rpc[r] = "getUser"
  /\ \/ /\ existingUser' = [existingUser EXCEPT ![r] = userTable[request[r].userId]]
        /\ rpc' = [rpc EXCEPT ![r] =
                     IF userTable[request[r].userId].exists THEN "route" ELSE "createUser"]
     \/ /\ rpc' = [rpc EXCEPT ![r] = "route"]
        /\ UNCHANGED existingUser
  /\ UNCHANGED <<vars, uiVars, deleteRequests, request, validation, response, log, userTable,
                 conversationTable, messageTable>>

\* mutant: the put carries no condition
attributeNotExists_Unchecked(item) == TRUE

\* createUser, part_005 line 172: ConditionExpression
\* 'attribute_not_exists(userId)'
attributeNotExists(item) == ~item.exists

\* ensureUserExists, lines 70-84, and DatabaseService.createUser (part_005
\* lines 154-189): a put under attribute_not_exists(userId); its failure is
\* caught and the request goes on
CreateUser(r) ==
  /\ rpc[r] = "createUser"
  /\ \/ /\ attributeNotExists(userTable[request[r].userId])
        /\ userTable' = [userTable EXCEPT ![request[r].userId] =
                           [exists |-> TRUE, conversationCount |-> 0]]
        /\ log' = [log EXCEPT ![r] = Append(@, "write:User")]
     \/ /\ log' = [log EXCEPT ![r] = Append(@, "createUser failed")]
        /\ UNCHANGED userTable
  /\ rpc' = [rpc EXCEPT ![r] = "route"]
  /\ UNCHANGED <<vars, uiVars, deleteRequests, request, existingUser, validation, response,
                 conversationTable, messageTable>>

\* mutant: the result of the validation is not looked at
nameAccepted_Always(v) == TRUE

\* line 218: !validation.isValid
nameAccepted(v) == v.isValid

\* mutant: the name is written without being validated
checkRename_Unvalidated(req) ==
  IF req.conversationId = ""
  THEN [go |-> "respond", validation |-> NotValidated,
        response |-> errorResponse(400, "Conversation ID is required")]
  ELSE IF req.body.kind = "none"
  THEN [go |-> "respond", validation |-> NotValidated,
        response |-> errorResponse(400, "Request body is required")]
  ELSE IF req.body.kind = "malformed"
  THEN [go |-> "respond", validation |-> NotValidated,
        response |-> errorResponse(500, "Failed to update conversation name")]
  ELSE IF req.body.kind \in {"noname", "number"} \/ Len(req.body.name) = 0
  THEN [go |-> "respond", validation |-> NotValidated,
        response |-> errorResponse(400, "Name is required and must be a string")]
  ELSE [go |-> "update", validation |-> NotValidated, response |-> NoResponse]

\* handleConversationUpdate, lines 190-233 and 248-263, up to its first
\* await: the response it returns at once, or that it goes on to
\* db.updateConversation; JSON.parse of a malformed body throws into the
\* catch of line 248
checkRename(req) ==
  IF req.conversationId = ""
  THEN [go |-> "respond", validation |-> NotValidated,
        response |-> errorResponse(400, "Conversation ID is required")]
  ELSE IF req.body.kind = "none"
  THEN [go |-> "respond", validation |-> NotValidated,
        response |-> errorResponse(400, "Request body is required")]
  ELSE IF req.body.kind = "malformed"
  THEN [go |-> "respond", validation |-> NotValidated,
        response |-> errorResponse(500, "Failed to update conversation name")]
  ELSE IF req.body.kind \in {"noname", "number"} \/ Len(req.body.name) = 0
  THEN [go |-> "respond", validation |-> NotValidated,
        response |-> errorResponse(400, "Name is required and must be a string")]
  ELSE LET v == validateConversationName(req.body.name) IN
         IF ~nameAccepted(v)
         THEN [go |-> "respond", validation |-> v,
               response |-> errorResponse(400, v.error)]
         ELSE [go |-> "update", validation |-> v, response |-> NoResponse]

\* handler, lines 124-129, and handleConversationUpdate up to line 233
RenameCheck(r) ==
  /\ rpc[r] = "route"
  /\ request[r].method = "PUT"
  /\ LET d == checkRename(request[r]) IN
       /\ validation' = [validation EXCEPT ![r] = d.validation]
       /\ log' = [log EXCEPT ![r] =
                    @ \o (IF d.validation = NotValidated THEN <<>> ELSE <<"validate">>)
                      \o (IF d.go = "update" THEN <<"updateConversation">> ELSE <<>>)]
       /\ IF d.go = "respond"
          THEN Respond(r, d.response)
          ELSE /\ rpc' = [rpc EXCEPT ![r] = "getConversation"]
               /\ UNCHANGED response
  /\ UNCHANGED <<vars, uiVars, deleteRequests, request, existingUser, userTable, conversationTable,
                 messageTable>>

\* mutant: the owner of the conversation is not compared with the caller
ownedBy_Anyone(item, userId) == item.exists

\* getConversation, part_005 lines 365-390: the item, unless it is absent or
\* another user's (userId and owner are written alike, lines 268-275)
ownedBy(item, userId) == item.exists /\ item.userId = userId

\* DatabaseService.updateConversation, part_005 lines 409-413, with
\* getConversation, lines 353-400: the read fails (500), or finds no item or
\* another user's item (404), or finds the caller's item
GetConversation(r) ==
  /\ rpc[r] = "getConversation"
  /\ LET item == conversationTable[request[r].conversationId] IN
       \/ /\ Respond(r, errorResponse(500, "Failed to update conversation name"))
          /\ Throw(r)
       \/ /\ ~ownedBy(item, request[r].userId)
          /\ Respond(r, errorResponse(404, "Conversation not found"))
          /\ UNCHANGED log
       \/ /\ ownedBy(item, request[r].userId)
          /\ rpc' = [rpc EXCEPT ![r] = "updateItem"]
          /\ UNCHANGED <<response, log>>
  /\ UNCHANGED <<vars, uiVars, deleteRequests, request, existingUser, validation, userTable,
                 conversationTable, messageTable>>

\* mutant: the name is stored and echoed as submitted
renamedTo_Untrimmed(name) == name

\* handleConversationUpdate, lines 233 and 243: name.trim()
renamedTo(name) == trim(name)

\* DatabaseService.updateConversation, part_005 lines 415-436, and
\* handleConversationUpdate, lines 233-246 and 260-263: SET name = :name
\* with name.trim(), then 200 with the trimmed name; a failed update is 500
UpdateItem(r) ==
  /\ rpc[r] = "updateItem"
  /\ LET id == request[r].conversationId
         name == renamedTo(request[r].body.name)
     IN  \/ /\ conversationTable' =
                 [conversationTable EXCEPT ![id] =
                    [exists |-> TRUE, userId |-> @.userId, name |-> name,
                     messageCount |-> @.messageCount]]
            /\ log' = [log EXCEPT ![r] = Append(@, "write:Conversation")]
            /\ Respond(r, [statusCode |-> 200, error |-> "", name |-> name])
         \/ /\ Respond(r, errorResponse(500, "Failed to update conversation name"))
            /\ Throw(r)
            /\ UNCHANGED conversationTable
  /\ UNCHANGED <<vars, uiVars, deleteRequests, request, existingUser, validation, userTable,
                 messageTable>>

\* the instant new Date() gives while a chat request is named
ChatDate == [month |-> 1, day |-> 20, hour |-> 14, minute |-> 5]

\* generateConversationName(firstMessage) as a function of the message and
\* the instant, part_000 lines 4-20
generatedName(firstMessage, d) ==
  LET c == trim(firstMessage) IN
    IF tooShort(c) THEN generateFallbackName(d)
    ELSE smartTruncate(applyNamingRules(c)[4], MaxNameLength)

\* the catch of handler, lines 143-178
InternalError == errorResponse(500, "An error occurred while processing your request.")

\* the conversation a chat request works on: the one it names, or the one
\* it creates
chatConversationId(r) ==
  IF request[r].conversationId = "" THEN newConversationId(r)
  ELSE request[r].conversationId

\* handler, lines 132-136, and handleChatRequest, lines 277-305 and 318-320,
\* up to its first await: an empty query is answered 400; without a
\* conversationId a conversation is created, with one it is read
ChatCheck(r) ==
  /\ rpc[r] = "route"
  /\ request[r].method = "POST"
  /\ IF Len(request[r].body.query) = 0
     THEN Respond(r, errorResponse(400, "Query parameter is required"))
     ELSE /\ rpc' = [rpc EXCEPT ![r] =
                       IF request[r].conversationId = "" THEN "putConversation"
                       ELSE "verifyConversation"]
          /\ UNCHANGED response
  /\ UNCHANGED <<vars, uiVars, deleteRequests, request, existingUser, validation, log, userTable,
                 conversationTable, messageTable>>

\* createConversation, part_005 lines 261-285: the put of the new item,
\* named by generateConversationName(query) (handler.ts line 306)
PutConversation(r) ==
  /\ rpc[r] = "putConversation"
  /\ \/ /\ conversationTable' =
             [conversationTable EXCEPT ![newConversationId(r)] =
                [exists |-> TRUE, userId |-> request[r].userId,
                 name |-> generatedName(request[r].body.query, ChatDate),
                 messageCount |-> 0]]
        /\ log' = [log EXCEPT ![r] = Append(@, "write:Conversation")]
        /\ rpc' = [rpc EXCEPT ![r] = "updateCount"]
        /\ UNCHANGED response
     \/ /\ Respond(r, InternalError)
        /\ Throw(r)
        /\ UNCHANGED conversationTable
  /\ UNCHANGED <<vars, uiVars, deleteRequests, request, existingUser, validation, userTable,
                 messageTable>>

\* createConversation, part_005 line 288, and updateUserConversationCount,
\* lines 222-257: SET conversationCount = conversationCount + 1, which
\* fails on a user without a record
UpdateCount(r) ==
  /\ rpc[r] = "updateCount"
  /\ \/ /\ userTable[request[r].userId].exists
        /\ userTable' = [userTable EXCEPT ![request[r].userId].conversationCount = @ + 1]
        /\ log' = [log EXCEPT ![r] = Append(@, "write:UserCount")]
        /\ rpc' = [rpc EXCEPT ![r] = "putUserMessage"]
        /\ UNCHANGED response
     \/ /\ Respond(r, InternalError)
        /\ Throw(r)
        /\ UNCHANGED userTable
  /\ UNCHANGED <<vars, uiVars, deleteRequests, request, existingUser, validation, conversationTable,
                 messageTable>>

\* handleChatRequest, lines 320-329, with getConversation, part_005 lines
\* 353-400: the read fails (500), or gives null (403), or the caller's item
VerifyConversation(r) ==
  /\ rpc[r] = "verifyConversation"
  /\ \/ /\ Respond(r, InternalError)
        /\ Throw(r)
     \/ /\ ~ownedBy(conversationTable[request[r].conversationId], request[r].userId)
        /\ Respond(r, errorResponse(403, "Conversation not found or access denied"))
        /\ UNCHANGED log
     \/ /\ ownedBy(conversationTable[request[r].conversationId], request[r].userId)
        /\ rpc' = [rpc EXCEPT ![r] = "putUserMessage"]
        /\ UNCHANGED <<response, log>>
  /\ UNCHANGED <<vars, uiVars, deleteRequests, request, existingUser, validation, userTable,
                 conversationTable, messageTable>>

\* createMessage, part_005 lines 555-585: the put of the message item
PutMessage(r, role) ==
  /\ rpc[r] = IF role = "user" THEN "putUserMessage" ELSE "putAssistantMessage"
  /\ \/ /\ messageTable' = messageTable \cup
             {[messageId |-> <<r, role>>, conversationId |-> chatConversationId(r),
               userId |-> request[r].userId, role |-> role]}
        /\ log' = [log EXCEPT ![r] = Append(@, "write:Message")]
        /\ rpc' = [rpc EXCEPT ![r] =
                     IF role = "user" THEN "countUserMessage" ELSE "countAssistantMessage"]
        /\ UNCHANGED response
     \/ /\ Respond(r, InternalError)
        /\ Throw(r)
        /\ UNCHANGED messageTable
  /\ UNCHANGED <<vars, uiVars, deleteRequests, request, existingUser, validation, userTable,
                 conversationTable>>

\* createMessage, part_005 lines 587-596: SET messageCount = messageCount +
\* 1 on the conversation, which fails on an absent item; after the
\* assistant's message the chat request is answered 200 (handler.ts line 555)
CountMessage(r, role) ==
  /\ rpc[r] = IF role = "user" THEN "countUserMessage" ELSE "countAssistantMessage"
  /\ \/ /\ conversationTable[chatConversationId(r)].exists
        /\ conversationTable' =
             [conversationTable EXCEPT ![chatConversationId(r)].messageCount = @ + 1]
        /\ log' = [log EXCEPT ![r] = Append(@, "write:MessageCount")]
        /\ IF role = "user"
           THEN /\ rpc' = [rpc EXCEPT ![r] = "generate"]
                /\ UNCHANGED response
           ELSE Respond(r, [statusCode |-> 200, error |-> "", name |-> <<>>])
     \/ /\ Respond(r, InternalError)
        /\ Throw(r)
        /\ UNCHANGED conversationTable
  /\ UNCHANGED <<vars, uiVars, deleteRequests, request, existingUser, validation, userTable,
                 messageTable>>

\* handleChatRequest, lines 344-527: retrieval from the knowledge base and
\* generation of the answer, which fail or succeed
Generate(r) ==
  /\ rpc[r] = "generate"
  /\ \/ /\ rpc' = [rpc EXCEPT ![r] = "putAssistantMessage"]
        /\ UNCHANGED <<response, log>>
     \/ /\ Respond(r, InternalError)
        /\ Throw(r)
  /\ UNCHANGED <<vars, uiVars, deleteRequests, request, existingUser, validation, userTable,
                 conversationTable, messageTable>>

NextApi ==
  \E r \in Invocations :
    \/ Authenticate(r)
    \/ GetUser(r)
    \/ CreateUser(r)
    \/ RenameCheck(r)
    \/ GetConversation(r)
    \/ UpdateItem(r)
    \/ ChatCheck(r)
    \/ PutConversation(r)
    \/ UpdateCount(r)
    \/ VerifyConversation(r)
    \/ \E role \in {"user", "assistant"} : PutMessage(r, role)
    \/ \E role \in {"user", "assistant"} : CountMessage(r, role)
    \/ Generate(r)

SpecApi == InitApi /\ [][NextApi]_allVars

----------------------------------------------------------------------------
(* DatabaseService.deleteConversation (part_005 lines 470-552) called      *)
(* while a chat request works on the same conversation.                    *)

\* the messages stored before the calls
StoredMessages ==
  {[messageId |-> <<"m", role>>, conversationId |-> "c1", userId |-> "u1",
    role |-> role] : role \in {"user", "assistant"}}

\* a call deleteConversation(conversationId, userId)
DeleteCalls ==
  [method : {"deleteConversation"}, userId : UserIds,
   conversationId : ConversationIds \cup {MissingConversationId},
   body : {[kind |-> "none", name |-> <<>>]}]

\* r1 calls deleteConversation, r2 is a chat request on c1
InitDelete ==
  /\ NoCall
  /\ NoPage
  /\ \E d \in DeleteCalls, c \in ChatRequests :
       /\ c.conversationId = "c1"
       /\ request = [r \in Invocations |-> IF r = "r1" THEN d ELSE c]
  /\ rpc = [r \in Invocations |-> IF r = "r1" THEN "deleteVerify" ELSE "start"]
  /\ existingUser = [r \in Invocations |-> NoUser]
  /\ validation = [r \in Invocations |-> NotValidated]
  /\ response = [r \in Invocations |-> NoResponse]
  /\ log = [r \in Invocations |-> <<>>]
  /\ userTable = [u \in UserIds |-> [exists |-> TRUE, conversationCount |-> 1]]
  /\ \E stored \in SUBSET StoredMessages :
       /\ messageTable = stored
       /\ conversationTable =
            [c \in ConversationKeys |->
               IF c \in ConversationIds
               THEN [exists |-> TRUE, userId |-> "u1", name |-> OldName,
                     messageCount |-> Cardinality(stored)]
               ELSE NoConversation]
  /\ deleteRequests = [r \in Invocations |-> {}]

\* the call rejects: the catch of lines 542-551 rethrows
Reject(r) ==
  /\ rpc' = [rpc EXCEPT ![r] = "done"]
  /\ Throw(r)

\* lines 477-481, and again inside getConversationMessages (lines 636-643):
\* getConversation; the first time null is an error, the second time it
\* gives no messages
DeleteVerify(r) ==
  /\ rpc[r] \in {"deleteVerify", "listVerify"}
  /\ LET owned == ownedBy(conversationTable[request[r].conversationId],
                          request[r].userId)
     IN  \/ Reject(r)
         \/ /\ rpc[r] = "deleteVerify"
            /\ ~owned
            /\ Reject(r)
         \/ /\ rpc[r] = "deleteVerify"
            /\ owned
            /\ rpc' = [rpc EXCEPT ![r] = "listVerify"]
            /\ UNCHANGED log
         \/ /\ rpc[r] = "listVerify"
            /\ rpc' = [rpc EXCEPT ![r] = IF owned THEN "listMessages" ELSE "deleteItem"]
            /\ UNCHANGED log
  /\ UNCHANGED <<vars, uiVars, deleteRequests, request, existingUser, validation,
                 response, userTable, conversationTable, messageTable>>

\* getConversationMessages, lines 645-655, and lines 485-496: the query on
\* ConversationMessagesIndex and the delete requests made of its items
ListMessages(r) ==
  /\ rpc[r] = "listMessages"
  /\ \/ /\ Reject(r)
        /\ UNCHANGED deleteRequests
     \/ LET found == {msg \in messageTable :
                           msg.conversationId = request[r].conversationId}
        IN  /\ deleteRequests' =
                 [deleteRequests EXCEPT ![r] = {msg.messageId : msg \in found}]
            /\ rpc' = [rpc EXCEPT ![r] =
                         IF found = {} THEN "deleteItem" ELSE "batchDelete"]
            /\ UNCHANGED log
  /\ UNCHANGED <<vars, uiVars, request, existingUser, validation, response,
                 userTable, conversationTable, messageTable>>

\* lines 498-513: the BatchWriteCommand of the delete requests (fewer than
\* 25, so one batch)
BatchDelete(r) ==
  /\ rpc[r] = "batchDelete"
  /\ \/ /\ Reject(r)
        /\ UNCHANGED messageTable
     \/ /\ messageTable' =
             {msg \in messageTable : msg.messageId \notin deleteRequests[r]}
        /\ log' = [log EXCEPT ![r] = Append(@, "write:Message")]
        /\ rpc' = [rpc EXCEPT ![r] = "deleteItem"]
  /\ UNCHANGED <<vars, uiVars, deleteRequests, request, existingUser, validation,
                 response, userTable, conversationTable>>

\* lines 516-520: the DeleteCommand of the conversation
DeleteItem(r) ==
  /\ rpc[r] = "deleteItem"
  /\ \/ /\ Reject(r)
        /\ UNCHANGED conversationTable
     \/ /\ conversationTable' =
             [conversationTable EXCEPT ![request[r].conversationId] = NoConversation]
        /\ log' = [log EXCEPT ![r] = Append(@, "write:Conversation")]
        /\ rpc' = [rpc EXCEPT ![r] = "decrementCount"]
  /\ UNCHANGED <<vars, uiVars, deleteRequests, request, existingUser, validation,
                 response, userTable, messageTable>>

\* line 523: updateUserConversationCount(userId, -1), after which the call
\* resolves
DecrementCount(r) ==
  /\ rpc[r] = "decrementCount"
  /\ \/ /\ Reject(r)
        /\ UNCHANGED userTable
     \/ /\ userTable' = [userTable EXCEPT ![request[r].userId].conversationCount = @ - 1]
        /\ log' = [log EXCEPT ![r] = Append(@, "write:UserCount")]
        /\ rpc' = [rpc EXCEPT ![r] = "done"]
  /\ UNCHANGED <<vars, uiVars, deleteRequests, request, existingUser, validation,
                 response, conversationTable, messageTable>>

NextDelete ==
  \E r \in Invocations :
    \/ DeleteVerify(r)
    \/ ListMessages(r)
    \/ BatchDelete(r)
    \/ DeleteItem(r)
    \/ DecrementCount(r)
    \/ Authenticate(r)
    \/ GetUser(r)
    \/ ChatCheck(r)
    \/ VerifyConversation(r)
    \/ \E role \in {"user", "assistant"} : PutMessage(r, role)
    \/ \E role \in {"user", "assistant"} : CountMessage(r, role)
    \/ Generate(r)

SpecDelete == InitDelete /\ [][NextDelete]_allVars

----------------------------------------------------------------------------
(* ChatPage (src/app/chat/page.tsx): the handlers of the chat pane and of  *)
(* the sidebar.  A handler called by the user reads the state of the last  *)
(* render; the part of an async handler after an await reads the values    *)
(* its closure captured when the handler was called, and its functional    *)
(* updates (setMessages(prev => ...)) read the state at that time.         *)
(* handleRenameConversation (lines 174-186) sets only the state            *)
(* conversations, which none of these handlers reads.                      *)

\* the handler calls that may await
MaxCalls == 4

\* the conversations of the sidebar
SidebarConversations == {"c1", "c2"}

\* response.conversationId when the request carried none
responseConversationId(call) ==
  IF call.activeConversationId = Null
  THEN "conv_" \o ToString(call.id)
  ELSE call.activeConversationId

\* the messages Message.list returns for a conversation
StoredLists(conversationId) ==
  {<<>>,
   <<[type |-> "user", conversationId |-> conversationId],
     [type |-> "assistant", conversationId |-> conversationId]>>}

Await(handler, conversationId, at) ==
  [id |-> started + 1, handler |-> handler, conversationId |-> conversationId,
   activeConversationId |-> activeConversationId, at |-> at]

InitUi ==
  /\ NoCall
  /\ NoInvocation
  /\ NoPage

\* part_002 lines 643-660 (the form is enabled), localOnSubmit, and
\* handleSubmit up to its await (page.tsx lines 188-204)
handleSubmit ==
  /\ started < MaxCalls
  /\ ~(isLoading \/ isLoadingMessages)
  /\ ~isLoading
  /\ isLoading' = TRUE
  /\ messages' = Append(messages, [type |-> "user",
                                   conversationId |-> activeConversationId])
  /\ pending' = pending \cup {Await("handleSubmit", "", "queryKnowledgeBase")}
  /\ started' = started + 1
  /\ UNCHANGED <<vars, apiVars, activeConversationId, isLoadingMessages>>

\* handleSubmit after queryKnowledgeBase has settled (lines 204-243)
queryKnowledgeBaseSettled ==
  \E call \in pending :
    /\ call.handler = "handleSubmit"
    /\ call.at = "queryKnowledgeBase"
    /\ \/ /\ activeConversationId' =
               IF call.activeConversationId = Null
               THEN responseConversationId(call)
               ELSE activeConversationId
          /\ messages' = Append(messages,
                                [type |-> "assistant",
                                 conversationId |-> responseConversationId(call)])
          /\ pending' = (pending \ {call}) \cup
                          {[call EXCEPT !.at = "fetchConversations"]}
          /\ UNCHANGED isLoading
       \/ /\ messages' = Append(messages, Notice)
          /\ isLoading' = FALSE
          /\ pending' = pending \ {call}
          /\ UNCHANGED activeConversationId
    /\ UNCHANGED <<vars, apiVars, isLoadingMessages, started>>

\* handleSelectConversation and fetchMessages up to its await (lines 78-84,
\* 115-119)
handleSelectConversation(id) ==
  /\ started < MaxCalls
  /\ ~isLoadingMessages
  /\ activeConversationId' = id
  /\ isLoadingMessages' = TRUE
  /\ pending' = pending \cup {Await("handleSelectConversation", id, "Message.list")}
  /\ started' = started + 1
  /\ UNCHANGED <<vars, apiVars, messages, isLoading>>

\* fetchMessages after Message.list has settled (lines 85-112)
fetchMessagesSettled ==
  \E call \in pending :
    /\ call.at = "Message.list"
    /\ \E newMessages \in StoredLists(call.conversationId) \cup {<<Notice>>} :
         messages' = newMessages
    /\ isLoadingMessages' = FALSE
    /\ pending' = pending \ {call}
    /\ UNCHANGED <<vars, apiVars, activeConversationId, isLoading, started>>

\* lines 122-134
handleNewChat ==
  /\ activeConversationId' = Null
  /\ messages' = <<Notice>>
  /\ UNCHANGED <<vars, apiVars, isLoading, isLoadingMessages, pending, started>>

\* handleDeleteConversation up to its await (lines 136-142)
handleDeleteConversation(conversationId) ==
  /\ started < MaxCalls
  /\ isLoading' = TRUE
  /\ pending' = pending \cup
       {Await("handleDeleteConversation", conversationId, "Conversation.delete")}
  /\ started' = started + 1
  /\ UNCHANGED <<vars, apiVars, messages, activeConversationId, isLoadingMessages>>

\* handleDeleteConversation after Conversation.delete has settled (lines
\* 144-171)
deleteSettled ==
  \E call \in pending :
    /\ call.at = "Conversation.delete"
    /\ \/ /\ IF call.activeConversationId = call.conversationId
             THEN /\ activeConversationId' = Null
                  /\ messages' = <<Notice>>
             ELSE UNCHANGED <<activeConversationId, messages>>
          /\ pending' = (pending \ {call}) \cup
                          {[call EXCEPT !.at = "fetchConversations"]}
          /\ UNCHANGED isLoading
       \/ /\ isLoading' = FALSE
          /\ pending' = pending \ {call}
          /\ UNCHANGED <<activeConversationId, messages>>
    /\ UNCHANGED <<vars, apiVars, isLoadingMessages, started>>

\* fetchConversations has settled (it catches its errors, lines 59-76) and
\* the finally of the handler that awaited it runs (lines 169-171, 241-243)
fetchConversationsSettled ==
  \E call \in pending :
    /\ call.at = "fetchConversations"
    /\ isLoading' = FALSE
    /\ pending' = pending \ {call}
    /\ UNCHANGED <<vars, apiVars, messages, activeConversationId,
                   isLoadingMessages, started>>

NextUi ==
  \/ handleSubmit
  \/ queryKnowledgeBaseSettled
  \/ \E id \in SidebarConversations : handleSelectConversation(id)
  \/ fetchMessagesSettled
  \/ handleNewChat
  \/ \E conversationId \in SidebarConversations :
       handleDeleteConversation(conversationId)
  \/ deleteSettled
  \/ fetchConversationsSettled

SpecUi == InitUi /\ [][NextUi]_allVars

\* the submissions that await the reply of the backend
SubmissionsInFlight ==
  {call \in pending : call.handler = "handleSubmit" /\ call.at = "queryKnowledgeBase"}

\* no message load and no chat submission is in flight
Settled ==
  \A call \in pending : call.handler = "handleDeleteConversation"

----------------------------------------------------------------------------
(* Vocabulary of the properties, stated on the strings themselves.         *)

Returned(f) == pc = "return" /\ fn = f

\* s with its leading and trailing white space removed
Trimmed(s) ==
  IF \A i \in 1..Len(s) : s[i] \in WhiteSpace THEN <<>>
  ELSE LET first == CHOOSE i \in 1..Len(s) :
                      s[i] \notin WhiteSpace /\ \A j \in 1..(i - 1) : s[j] \in WhiteSpace
           last == CHOOSE i \in 1..Len(s) :
                     s[i] \notin WhiteSpace /\ \A j \in (i + 1)..Len(s) : s[j] \in WhiteSpace
       IN  [i \in 1..(last - first + 1) |-> s[first + i - 1]]

TrimmedLength(s) == Len(Trimmed(s))

\* a message long enough to be named from its text
NamedFromText == Returned("generateConversationName") /\ TrimmedLength(arg) >= 5

SameLetter(a, b) ==
  a = b \/ \E i \in 1..26 : {a, b} = {LowerCaseLetters[i], UpperCaseLetters[i]}

Capital(c) ==
  IF \E i \in 1..26 : c = LowerCaseLetters[i]
  THEN UpperCaseLetters[CHOOSE i \in 1..26 : c = LowerCaseLetters[i]]
  ELSE c

\* the first n characters of s, all of s when it is shorter
Prefix(s, n) == [i \in 1..Min(n, Len(s)) |-> s[i]]

\* s without its first n characters
DropFirst(s, n) == [i \in 1..(Len(s) - n) |-> s[n + i]]

\* s without its last n characters
DropLast(s, n) == [i \in 1..(Len(s) - n) |-> s[i]]

\* the words w stand in s right after its first off characters, in any case
StandsAt(s, off, w) ==
  /\ Len(s) >= off + Len(w)
  /\ \A i \in 1..Len(w) : SameLetter(s[off + i], w[i])

\* the length of the white-space run that follows the conversational opener
\* o at the start of s; 0 when s does not begin with o and white space
SpaceAfterOpener(s, o) ==
  IF StandsAt(s, 0, o) /\ Len(s) > Len(o) /\ s[Len(o) + 1] \in WhiteSpace
  THEN CHOOSE k \in 1..(Len(s) - Len(o)) :
         /\ \A j \in (Len(o) + 1)..(Len(o) + k) : s[j] \in WhiteSpace
         /\ Len(s) > Len(o) + k => s[Len(o) + k + 1] \notin WhiteSpace
  ELSE 0

\* s begins with the conversational opener o and exactly k >= 1 white-space
\* characters after it
OpenerAtStart(s, o, k) == k >= 1 /\ SpaceAfterOpener(s, o) = k

HasOpener(s) ==
  \E o \in Range(ConversationalStarters) : SpaceAfterOpener(s, o) > 0

\* what is left of s once its opener and the white space after it are gone
AfterOpener(s) ==
  IF HasOpener(s)
  THEN LET o == CHOOSE x \in Range(ConversationalStarters) : SpaceAfterOpener(s, x) > 0
       IN  DropFirst(s, Len(o) + SpaceAfterOpener(s, o))
  ELSE s

\* how many characters c end s
EndingRun(s, c) ==
  CHOOSE n \in 0..Len(s) :
    /\ \A i \in (Len(s) - n + 1)..Len(s) : s[i] = c
    /\ n < Len(s) => s[Len(s) - n] # c

EndsWith(s, e) == Len(s) >= Len(e) /\ DropFirst(s, Len(s) - Len(e)) = e

\* 0-based index of the last space among the first max characters of text,
\* -1 when there is none
LastSpaceWithin(text, max) ==
  LET n == Min(max, Len(text))
  IN  IF \E i \in 1..n : text[i] = SPACE
      THEN (CHOOSE i \in 1..n :
              text[i] = SPACE /\ \A j \in (i + 1)..n : text[j] # SPACE) - 1
      ELSE -1

Truncated == Returned("smartTruncate") /\ Len(arg) > maxLength

\* the reserved characters, and the control characters among the characters
\* of the names
Reserved == {"<", ">", ":", "\"", "/", "\\", "|", "?", "*"}
Control == {SOH, TAB, NEWLINE}

HasForbidden(s) == \E i \in 1..Len(s) : s[i] \in Reserved \cup Control

\* the three failures and the success of the validator
EmptyName == [isValid |-> FALSE, error |-> "Conversation name cannot be empty"]
TooLongName ==
  [isValid |-> FALSE, error |-> "Conversation name must be 100 characters or less"]
InvalidCharacters ==
  [isValid |-> FALSE, error |-> "Conversation name contains invalid characters"]
ValidName == [isValid |-> TRUE]

Validated == Returned("validateConversationName")
Cleaned == Returned("cleanConversationName")

\* s with every run of white space replaced by one space: the characters
\* of s that are not white space or that begin a run, in their order, a
\* white-space one read as a space
SingleSpaced(s) ==
  LET kept(i) == s[i] \notin WhiteSpace \/ i = 1 \/ s[i - 1] \notin WhiteSpace
      rank == [i \in 0..Len(s) |-> Cardinality({j \in 1..i : kept(j)})]
  IN  [k \in 1..rank[Len(s)] |->
         LET i == CHOOSE h \in 1..Len(s) : kept(h) /\ rank[h] = k
         IN  IF s[i] \in WhiteSpace THEN SPACE ELSE s[i]]

----------------------------------------------------------------------------
(* C1: generateConversationName never returns the empty string.  The code  *)
(* returns "" for a message of five or more characters that is only        *)
(* punctuation of the shape !*.*?* (such as "?????").                      *)
C1_TitleNeverEmpty ==
  Returned("generateConversationName") => Len(ret) >= 1

(* C2: for a message of trimmed length >= 5 the returned title is at most  *)
(* 50 characters long.  The word-boundary branch appends "..." to up to 49 *)
(* characters.                                                             *)
C2_TitleAtMost50 ==
  NamedFromText => Len(ret) <= 50

C4_OneOpenerStripped ==
  NamedFromText =>
    LET m == Trimmed(arg) IN
      /\ \A o \in Range(ConversationalStarters) :
           SpaceAfterOpener(m, o) > 0 =>
             processed[1] = DropFirst(m, Len(o) + SpaceAfterOpener(m, o))
      /\ ~HasOpener(m) => processed[1] = m

C4_Witness ==
  /\ Returned("generateConversationName")
  /\ OpenerAtStart(cleaned, <<"h", "i">>, 1)
  /\ StandsAt(cleaned, 3, <<"h", "i", SPACE>>)
  /\ Len(cleaned) >= 12
  /\ processed[1] = DropFirst(cleaned, 3)

(* C5: when fewer than 5 characters are left after the opener the title is *)
(* built from the whole trimmed message, otherwise from what is left;      *)
(* "hi bob" is titled "Hi bob".                                            *)
C5_RevertWhenTooShort ==
  NamedFromText =>
    LET m == Trimmed(arg)
        rest == AfterOpener(m)
    IN  /\ Len(rest) < 5 => processed[2] = m
        /\ Len(rest) >= 5 => processed[2] = rest
        /\ arg = HiBob => ret = <<"H", "i", SPACE, "b", "o", "b">>

C5_Witness ==
  /\ Returned("generateConversationName")
  /\ arg = HiBob
  /\ ret = <<"H", "i", SPACE, "b", "o", "b">>

(* C6: a question-style opener at the start of the message, or right after *)
(* a stripped conversational opener, stays in the title as written, but    *)
(* for the capital first character of the title; "Explain X" is unchanged. *)
C6_QuestionOpenerKept ==
  NamedFromText =>
    LET m == Trimmed(arg) IN
      /\ \A q \in Range(QuestionStarters) :
           /\ StandsAt(m, 0, q) =>
                Prefix(ret, Len(q)) = <<Capital(m[1])>> \o DropFirst(Prefix(m, Len(q)), 1)
           /\ \A o \in Range(ConversationalStarters) :
                (/\ SpaceAfterOpener(m, o) > 0
                 /\ StandsAt(m, Len(o) + SpaceAfterOpener(m, o), q)) =>
                  LET off == Len(o) + SpaceAfterOpener(m, o)
                      text == Prefix(DropFirst(m, off), Len(q))
                  IN  IF Len(m) - off >= 5
                      THEN Prefix(ret, Len(q)) = <<Capital(text[1])>> \o DropFirst(text, 1)
                      ELSE Prefix(DropFirst(ret, off), Len(q)) = text
      /\ arg = ExplainX => ret = ExplainX

C6_Witness ==
  /\ Returned("generateConversationName")
  /\ OpenerAtStart(cleaned, <<"p", "l", "e", "a", "s", "e">>, 1)
  /\ StandsAt(cleaned, 7, <<"w", "h", "y", SPACE>>)
  /\ Prefix(ret, 4) = <<"W", "h", "y", SPACE>>

(* C7: for a message of trimmed length >= 5 the title starts with the      *)
(* upper-cased first character of the text left by the opener step, and    *)
(* capitalization changes no other character.  Fails where the title is    *)
(* empty (C1).                                                             *)
C7_TitleStartsCapitalized ==
  NamedFromText =>
    /\ Len(ret) >= 1
    /\ ret[1] = Capital(processed[2][1])
    /\ processed[3] = <<Capital(processed[2][1])>> \o DropFirst(processed[2], 1)

(* C8: the punctuation cleanup removes the run of "?" that ends the text,  *)
(* then the run of "." that ends what is left, then the run of "!", then   *)
(* trims: a text ending "!?" loses both marks, one ending "?!" only "!".   *)
C8_PunctuationInOrder ==
  NamedFromText =>
    LET s == processed[3]
        s1 == DropLast(s, EndingRun(s, "?"))
        s2 == DropLast(s1, EndingRun(s1, "."))
        s3 == DropLast(s2, EndingRun(s2, "!"))
    IN  /\ processed[4] = Trimmed(s3)
        /\ EndsWith(s, <<"!", "?">>) =>
             Len(processed[4]) <= Len(s) - 2 /\ processed[4] = Prefix(s, Len(processed[4]))
        /\ EndsWith(s, <<"?", "!">>) => processed[4] = DropLast(s, 1)

C8_Witness ==
  /\ Returned("generateConversationName")
  /\ Len(processed) = 4
  /\ EndsWith(processed[3], <<"a", "?", "!">>)
  /\ EndsWith(processed[4], <<"a", "?">>)
  /\ ret = processed[4]

(* C9: when the last space among the first maxLength characters lies past  *)
(* 60% of maxLength, the text is cut at that space and "..." appended;     *)
(* "The quick brown fox" cut to 10 is "The quick..."; with maxLength 50    *)
(* this happens exactly when the space is at index 31 or later.            *)
C9_CutAtWordBoundary ==
  Truncated =>
    LET p == LastSpaceWithin(arg, maxLength) IN
      /\ 100 * p > 60 * maxLength => ret = Prefix(arg, p) \o Ellipsis
      /\ maxLength = 50 => (ret = Prefix(arg, Max(p, 0)) \o Ellipsis <=> p >= 31)
      /\ (arg = TheQuickBrownFox /\ maxLength = 10) =>
           ret = <<"T", "h", "e", SPACE, "q", "u", "i", "c", "k", ".", ".", ".">>

C9_Witness ==
  /\ Returned("smartTruncate")
  /\ arg = TheQuickBrownFox
  /\ maxLength = 10
  /\ ret = <<"T", "h", "e", SPACE, "q", "u", "i", "c", "k", ".", ".", ".">>

(* C10: when there is no space among the first maxLength characters, or    *)
(* the last one lies at or before 60% of maxLength, the result is the      *)
(* first maxLength - 3 characters and "...", maxLength characters in all.  *)
C10_HardCut ==
  Truncated =>
    LET p == LastSpaceWithin(arg, maxLength) IN
      (p = -1 \/ 100 * p <= 60 * maxLength) =>
        /\ ret = Prefix(arg, maxLength - 3) \o Ellipsis
        /\ Len(ret) = maxLength

C10_Witness ==
  /\ Returned("smartTruncate")
  /\ maxLength = 50
  /\ LastSpaceWithin(arg, 50) = 30
  /\ Len(ret) = 50
  /\ ret = Prefix(arg, 47) \o Ellipsis

(* C11: a text no longer than maxLength, also one of exactly maxLength      *)
(* characters, is returned unchanged by smartTruncate.                      *)
C11_ShortTextUnchanged ==
  Returned("smartTruncate") /\ Len(arg) <= maxLength => ret = arg

C11_Witness ==
  /\ Returned("smartTruncate")
  /\ maxLength = 5
  /\ arg = <<"a", "a", SPACE, "a", "a">>
  /\ ret = arg

(* C12: the validator answers "Conversation name cannot be empty" exactly   *)
(* for the names that are empty after trimming.                             *)
C12_EmptyNameRejected ==
  Validated => (ret = EmptyName <=> TrimmedLength(arg) = 0)

C12_Witness ==
  /\ Validated
  /\ arg = <<SPACE, TAB, SPACE>>
  /\ ret = EmptyName

(* C13: the validator answers "... must be 100 characters or less" for      *)
(* every name whose trimmed length exceeds 100, and not for a name of 100   *)
(* characters or less after trimming, whatever white space surrounds it.    *)
C13_TooLongRejected ==
  Validated =>
    /\ TrimmedLength(arg) > 100 => ret = TooLongName
    /\ TrimmedLength(arg) <= 100 => ret # TooLongName

C13_Witness ==
  /\ Validated
  /\ TrimmedLength(arg) = 100
  /\ Len(arg) = 104
  /\ ret = ValidName

(* C14: a name of 1 to 100 characters after trimming is answered "...       *)
(* contains invalid characters" exactly when the trimmed name holds one of  *)
(* < > : " / \ | ? * or a control character.                                *)
C14_InvalidCharactersRejected ==
  Validated /\ TrimmedLength(arg) \in 1..100 =>
    (ret = InvalidCharacters <=> HasForbidden(Trimmed(arg)))

C14_Witness ==
  /\ Validated
  /\ arg = <<"a", SOH, "b">>
  /\ ret = InvalidCharacters

(* C15: the validator returns the first that applies of empty, too long,    *)
(* invalid characters, and otherwise the valid result without an error; a   *)
(* result has an error exactly when it is not valid.                        *)
C15_DecisionTable ==
  Validated =>
    LET t == Trimmed(arg) IN
      /\ ret = IF Len(t) = 0 THEN EmptyName
               ELSE IF Len(t) > 100 THEN TooLongName
               ELSE IF HasForbidden(t) THEN InvalidCharacters
               ELSE ValidName
      /\ "error" \in DOMAIN ret <=> ~ret.isValid

C15_Witness ==
  /\ Validated
  /\ TrimmedLength(arg) = 101
  /\ arg[Len(arg)] = "<"
  /\ ret = TooLongName

(* C16: cleanConversationName is: trim, every run of white space to one     *)
(* space, the first 100 characters.  The result has at most 100 characters  *)
(* and is empty exactly when the name is empty or all white space.          *)
C16_CleanIsTrimCollapseCut ==
  Cleaned =>
    /\ ret = Prefix(SingleSpaced(Trimmed(arg)), 100)
    /\ Len(ret) <= 100
    /\ ret = <<>> <=> TrimmedLength(arg) = 0
    /\ arg = Word(150) => ret = Word(100)
    /\ arg = MultipleSpaces =>
         ret = <<"m", "u", "l", "t", "i", "p", "l", "e", SPACE,
                 "s", "p", "a", "c", "e", "s">>

C16_Witness ==
  /\ Cleaned
  /\ arg = MultipleSpaces
  /\ ret = <<"m", "u", "l", "t", "i", "p", "l", "e", SPACE,
             "s", "p", "a", "c", "e", "s">>

(* C17: a name returned by cleanConversationName holds no control character *)
(* and none of < > : " / \ | ? *.  The code removes none of them but the    *)
(* white-space ones.                                                        *)
C17_CleanNameHasNoForbidden ==
  Cleaned => ~HasForbidden(ret)

(* C20: "Hello" as a first message is named by the timestamp fallback.     *)
(* The code names it "Hello": its trimmed length, 5, is not below 5.       *)
C20_HelloGetsFallback ==
  Returned("generateConversationName") /\ arg = Hello =>
    Len(ret) > 16 /\ Prefix(ret, 16) = ChatStartedOn

----------------------------------------------------------------------------
(* Vocabulary of the claims about the rename endpoint.                     *)

Finished(r) == rpc[r] = "done"

\* r is an authenticated PUT /chat/conversation/{id} whose body is JSON with
\* a string as its name
SubmitsName(r) ==
  /\ request[r].method = "PUT"
  /\ request[r].userId # ""
  /\ request[r].conversationId # ""
  /\ request[r].body.kind = "string"

SubmittedName(r) == request[r].body.name

ValidatorRejects(name) == ~validateConversationName(name).isValid

Logged(r, event) == \E i \in DOMAIN log[r] : log[r][i] = event

\* the i-th entry of r's log comes after a call of validateConversationName
AfterValidation(r, i) == \E j \in 1..(i - 1) : log[r][j] = "validate"

TableWrites == {"write:User", "write:Conversation", "write:Message"}

\* every stored conversation still has the name it had at the start
NamesUntouched ==
  \A c \in ConversationIds : conversationTable[c].name = OldName

----------------------------------------------------------------------------
(* C18, as stated: a rename whose submitted name validateConversationName  *)
(* rejects is answered 400 with the validator's message as the error, does *)
(* not call updateConversation and leaves the stored name as it was.  The  *)
(* empty string is rejected by the validator ("... cannot be empty") but   *)
(* the handler answers it at line 211 with its own message.                *)
C18_RejectedNameGetsValidatorMessage ==
  /\ \A r \in Invocations :
       Finished(r) /\ SubmitsName(r) /\ ValidatorRejects(SubmittedName(r)) =>
         /\ response[r].statusCode = 400
         /\ response[r].error = validateConversationName(SubmittedName(r)).error
         /\ ~Logged(r, "updateConversation")
         /\ ~Logged(r, "write:Conversation")
  /\ (\A r \in Invocations : SubmitsName(r) /\ ValidatorRejects(SubmittedName(r)))
       => NamesUntouched

(* C18, amended: a rename whose submitted name is a non-empty string that  *)
(* validateConversationName rejects is answered 400 with the validator's   *)
(* message as the error; the empty string is answered 400 "Name is         *)
(* required and must be a string"; in both cases updateConversation is not *)
(* called and the stored name stays as it was.                             *)
C18_RejectedNameAnswered400 ==
  /\ \A r \in Invocations :
       Finished(r) /\ SubmitsName(r) /\ ValidatorRejects(SubmittedName(r)) =>
         /\ response[r].statusCode = 400
         /\ response[r].error =
              IF SubmittedName(r) = <<>>
              THEN "Name is required and must be a string"
              ELSE validateConversationName(SubmittedName(r)).error
         /\ ~Logged(r, "updateConversation")
         /\ ~Logged(r, "write:Conversation")
  /\ (\A r \in Invocations : SubmitsName(r) /\ ValidatorRejects(SubmittedName(r)))
       => NamesUntouched

C18_Witness ==
  \E r \in Invocations :
    /\ Finished(r)
    /\ SubmitsName(r)
    /\ request[r].userId = "u1"
    /\ SubmittedName(r) = <<"a", "<">>
    /\ response[r] = errorResponse(400, NameInvalidCharacters)
    /\ log[r] = <<"validate">>

(* C19, as stated: while a rename request is handled, no table is written  *)
(* before validateConversationName has been applied to the submitted name, *)
(* the first request of a user without a User record included.  For that   *)
(* user ensureUserExists writes the User record before the request is      *)
(* routed.                                                                 *)
C19_NoWriteBeforeValidation ==
  \A r \in Invocations :
    request[r].method = "PUT" =>
      \A i \in DOMAIN log[r] :
        log[r][i] \in TableWrites => AfterValidation(r, i)

(* C19, amended: while a rename request is handled, the Conversation and   *)
(* Message tables are not written before validateConversationName has been *)
(* applied to the submitted name; the only write that can come earlier is  *)
(* the creation, once, of the caller's User record, which the request had  *)
(* read as missing.                                                        *)
C19_NoConversationWriteBeforeValidation ==
  \A r \in Invocations :
    request[r].method = "PUT" =>
      \A i \in DOMAIN log[r] :
        /\ log[r][i] \in {"write:Conversation", "write:Message"} =>
             AfterValidation(r, i)
        /\ log[r][i] = "write:User" =>
             /\ i = 1
             /\ existingUser[r] = NoUser
             /\ userTable[request[r].userId].exists

C19_Witness ==
  \E r \in Invocations :
    /\ Finished(r)
    /\ request[r].method = "PUT"
    /\ response[r].statusCode = 200
    /\ log[r] = <<"write:User", "validate", "updateConversation",
                  "write:Conversation">>

----------------------------------------------------------------------------
(* Claims about a function applied to its own result.                      *)

Reapplied(f) == pc = "again" /\ fn = f

HelloWorldTitle == <<"H", "e", "l", "l", "o", SPACE, "w", "o", "r", "l", "d">>
WorldTitle == <<"W", "o", "r", "l", "d">>

(* C25: generateConversationName is not idempotent on messages of trimmed  *)
(* length >= 5: "hi hello world" is named "Hello world" and that title is  *)
(* named "World" (a further opener is stripped), and a title that ends in  *)
(* "..." never comes back unchanged.                                       *)
C25_ReapplyingChangesTitle ==
  Reapplied("generateConversationName") /\ TrimmedLength(arg) >= 5 =>
    /\ arg = HiHelloWorld =>
         /\ once = HelloWorldTitle
         /\ ret = WorldTitle
         /\ ret # once
    /\ EndsWith(once, Ellipsis) => ret # once

C25_Witness ==
  /\ Reapplied("generateConversationName")
  /\ arg = HiHelloWorld
  /\ ret = WorldTitle
  /\ ret # once

(* C27: smartTruncate never returns a string longer than its text, for     *)
(* every maxLength >= 3.  A text one character longer than maxLength whose *)
(* last space within maxLength is its maxLength-th character comes back    *)
(* one character longer.                                                   *)
C27_NeverLongerThanText ==
  Returned("smartTruncate") /\ maxLength >= 3 => Len(ret) <= Len(arg)

(* C28: cleanConversationName applied to its own result returns it         *)
(* unchanged, and its result neither starts nor ends with white space.     *)
(* When the 100th character after collapsing is a space, the result ends   *)
(* in that space and a second application removes it.                      *)
C28_CleanIsIdempotent ==
  /\ Cleaned /\ Len(ret) > 0 =>
       ret[1] \notin WhiteSpace /\ ret[Len(ret)] \notin WhiteSpace
  /\ Reapplied("cleanConversationName") => ret = once

----------------------------------------------------------------------------
(* Vocabulary of the claims about ownership, stored names and provisioning. *)

Authenticated(r) == request[r].userId # ""

\* a call of r to the database or to the model service has thrown
Threw(r) == Logged(r, "throw")

\* r names a conversation that does not exist or that belongs to another
\* user
NamesForeign(r) ==
  /\ Authenticated(r)
  /\ request[r].conversationId # ""
  /\ \/ ~conversationTable[request[r].conversationId].exists
     \/ conversationTable[request[r].conversationId].userId # request[r].userId

\* r has written nothing but, possibly, its caller's own User record
WroteNothing(r) ==
  \A i \in DOMAIN log[r] :
    log[r][i] \notin {"write:Conversation", "write:Message", "write:MessageCount",
                      "write:UserCount"}

\* what is stored belongs to who stored it: every message is its
\* conversation's owner's, and a conversation that no request of its owner
\* names is as it was at the start
OwnersOnly ==
  /\ \A msg \in messageTable :
       /\ conversationTable[msg.conversationId].exists
       /\ conversationTable[msg.conversationId].userId = msg.userId
  /\ \A c \in ConversationIds :
       (\A r \in Invocations :
          request[r].conversationId = c =>
            request[r].userId # conversationTable[c].userId)
         => /\ conversationTable[c].name = OldName
            /\ conversationTable[c].messageCount = 0
            /\ \A msg \in messageTable : msg.conversationId # c

\* r carries what its endpoint asks for: a chat request a non-empty query,
\* a rename a JSON body whose name is a non-empty string
WellFormed(r) ==
  IF request[r].method = "POST" THEN request[r].body.query # <<>>
  ELSE request[r].body.kind = "string" /\ SubmittedName(r) # <<>>

C24_WrittenNameIsTrimmedAndValid ==
  /\ \A r \in Invocations :
       Finished(r) /\ request[r].method = "PUT" /\ response[r].statusCode = 200 =>
         /\ Logged(r, "write:Conversation")
         /\ response[r].name = Trimmed(SubmittedName(r))
         /\ Len(response[r].name) \in 1..100
         /\ ~HasForbidden(response[r].name)
  /\ \A c \in ConversationIds :
       \/ conversationTable[c].name = OldName
       \/ \E r \in Invocations :
            /\ request[r].method = "PUT" /\ request[r].conversationId = c
            /\ Logged(r, "write:Conversation")
            /\ conversationTable[c].name = Trimmed(SubmittedName(r))
            /\ Len(conversationTable[c].name) \in 1..100
            /\ ~HasForbidden(conversationTable[c].name)

C24_Witness ==
  \E r \in Invocations :
    /\ Finished(r)
    /\ request[r].method = "PUT"
    /\ SubmittedName(r) = <<SPACE, "a", SPACE>>
    /\ response[r].statusCode = 200
    /\ response[r].name = <<"a">>
    /\ conversationTable[request[r].conversationId].name = <<"a">>

(* C26: every title the chat endpoint generates from a message of trimmed  *)
(* length >= 5 and stores as the name of a new conversation is accepted by *)
(* validateConversationName.  "why? no" is stored as "Why? no", which the  *)
(* validator rejects for its "?".                                          *)
C26_GeneratedNameIsValid ==
  \A r \in Invocations :
    /\ request[r].method = "POST"
    /\ conversationTable[newConversationId(r)].exists
    /\ TrimmedLength(request[r].body.query) >= 5
    => validateConversationName(conversationTable[newConversationId(r)].name).isValid

\* the invocations of user u that have logged event
LoggedBy(u, event) ==
  {r \in Invocations : request[r].userId = u /\ Logged(r, event)}

C22_DeleteLeavesNoMessage ==
  \A r \in Invocations :
    request[r].method = "deleteConversation" /\ Finished(r) /\ ~Threw(r) =>
      /\ ~conversationTable[request[r].conversationId].exists
      /\ \A msg \in messageTable : msg.conversationId # request[r].conversationId

(* C23: while a chat submission awaits the reply of the backend no second  *)
(* submission is started, whatever the other handlers do in between: at    *)
(* most one call of handleSubmit stands at its await of queryKnowledgeBase.*)
C23_OneSubmissionInFlight ==
  Cardinality(SubmissionsInFlight) <= 1

(* C30: once no message load and no chat submission is in flight, every    *)
(* message of the chat pane that comes from a conversation comes from the  *)
(* conversation activeConversationId names; the messages typed into a new  *)
(* chat, which has no conversation yet, are shown only while               *)
(* activeConversationId is null or names the conversation created for them.*)
C30_PaneShowsActiveConversation ==
  Settled =>
    \A i \in 1..Len(messages) :
      \/ messages[i] = Notice
      \/ messages[i].conversationId = activeConversationId
      \/ /\ messages[i].conversationId = Null
         /\ messages[i].type = "user"

====
